---- MODULE Spec2Model ----
(***************************************************************************)
(* A model of pycsw's repository layer (pycsw/core/repository.py): the     *)
(* records table behind a Repository, the session's transactions, the      *)
(* query and mutation methods, the process-global ranking request and the  *)
(* engine cache.                                                           *)
(*                                                                         *)
(* A query object is modelled by the set of rows it selects; a text()      *)
(* clause is modelled by the SQL text itself, evaluated per row by         *)
(* TextTrue.  Every method is one action; a backend failure inside a       *)
(* method is an input (fault) naming the statement that fails.             *)
(***************************************************************************)
EXTENDS Integers, Sequences, FiniteSets, TLC

VARIABLES
    db,                      \* the committed rows of the records table
    filter,                  \* Repository.filter (repo_filter), a SQL text or None
    ranking_pass,            \* util.ranking_pass, the process-global ranking flag
    ranking_query_geometry,  \* util.ranking_query_geometry, the query geometry (WKT)
    ranking_owner,           \* history: the caller whose request set the flag
    thief,                   \* history: per caller, who consumed its activation
    _engines,                \* Repository._engines, the engines memoized by url
    engines_created,         \* history: the engines sqlalchemy has created
    first,                   \* history: per url, the descriptor first detected
    threads,                 \* per caller, its position in create_engine and its locals
    pinging,                 \* the position of a caller in ping and its locals
    ret                      \* the call that last returned: [op, args, value, raised]

repoVars == <<db, filter>>

rankVars == <<ranking_pass, ranking_query_geometry, ranking_owner, thief>>

engineVars == <<_engines, engines_created, first, threads>>

pingVars == <<pinging>>

vars ==
    <<db, filter, ranking_pass, ranking_query_geometry, ranking_owner, thief,
      _engines, engines_created, first, threads, pinging, ret>>

-----------------------------------------------------------------------------
(* Values *)

None == "None"

\* identifier values, in the order they are taken into use
AllIds == <<"r1", "r2", "r3", "r4", "r5", "r6">>

NumIds == 3

Ids == {AllIds[i] : i \in 1..NumIds}

Sources == {"local", "remote"}

Typenames == {"csw:Record", "stac:Collection"}

\* the callers (request threads) of one process
Callers == {"A", "B"}

\* well-known text of some geometries: two nested squares, a rectangle
\* that holds both, and a point
GeomA == "POLYGON((0 0,0 2,2 2,2 0,0 0))"

GeomB == "POLYGON((0 0,0 1,1 1,1 0,0 0))"

GeomWorld == "POLYGON((0 0,0 100,200 100,200 0,0 0))"

GeomPoint == "POINT(1 1)"

\* a square that shares an edge with GeomA, and one away from all of them
GeomEast == "POLYGON((2 0,2 2,4 2,4 0,2 0))"

GeomFar == "POLYGON((5 5,5 6,6 6,6 5,5 5))"

\* a polygon whose ring crosses itself: it loads and has an area (3), and
\* its overlay with another geometry fails
GeomBowtie == "POLYGON((0 0,3 3,3 0,0 1,0 0))"

-----------------------------------------------------------------------------
(* XML documents.  The xml column holds a serialized document: its          *)
(* encoding (bytes or str), whether it opens with an XML declaration (one   *)
(* that names no encoding), and its elements in document order, each a tag  *)
(* with a text node.                                                        *)

Tags == {"dc:title", "dc:subject"}

Texts == {"old", "new"}

Element(tag, content) == [tag |-> tag, text |-> content]

Document(encoding, declaration, nodes) ==
    [encoding |-> encoding, declaration |-> declaration, nodes |-> nodes]

\* bytes kept as bytes
NotDecoded(xml) == xml

\* record.xml.decode()
decode(xml) == [xml EXCEPT !.encoding = "str"]

\* etree.tostring(xml): bytes, without an XML declaration
tostring(nodes) == Document("bytes", FALSE, nodes)

\* the XPath locators: the elements of a tag (//tag); the elements of a tag
\* that have a given text (//tag[text()='t']); the first element of a tag
\* whose text is not a given text ((//tag[text()!='t'])[1])
XPathAll(tag) == [axis |-> "all", tag |-> tag, text |-> None]

XPathText(tag, content) == [axis |-> "text", tag |-> tag, text |-> content]

XPathFirstOther(tag, content) == [axis |-> "first-other", tag |-> tag, text |-> content]

\* xml.xpath(...): the positions of the elements the locator selects
xpath(nodes, locator) ==
    LET tagged == {i \in 1..Len(nodes) : nodes[i].tag = locator.tag}
        others == {i \in tagged : nodes[i].text # locator.text}
    IN  CASE locator.axis = "all" -> tagged
          [] locator.axis = "text" -> tagged \ others
          [] OTHER -> {i \in others : \A j \in others : i <= j}

\* an update that appends an element for the value rather than rewriting
AppendValue(nsmap, xml, recprop) ==
    tostring(Append(xml.nodes, Element(recprop.xpath.tag, recprop.value)))

update_xpath(nsmap, xml, recprop) ==
    LET nodes == xpath(xml.nodes, recprop.xpath)
        rewritten == [i \in 1..Len(xml.nodes) |->
                         IF i \in nodes /\ xml.nodes[i].text # recprop.value
                         THEN [xml.nodes[i] EXCEPT !.text = recprop.value]
                         ELSE xml.nodes[i]]
    IN  tostring(SubSeq(rewritten, 1, Len(xml.nodes)))

\* util.get_anytext: the text nodes of the document, in document order
get_anytext(xml) ==
    SubSeq([i \in 1..Len(xml.nodes) |-> xml.nodes[i].text], 1, Len(xml.nodes))

-----------------------------------------------------------------------------
(* Rows *)

\* the position of an identifier in AllIds
IdIndex(id) == CHOOSE i \in 1..Len(AllIds) : AllIds[i] = id

\* a row of the records table (the columns the modelled methods read)
Row(id, parent, source, typename, date, wkt) ==
    [identifier |-> id, parentidentifier |-> parent, mdsource |-> source,
     typename |-> typename, insert_date |-> date, wkt_geometry |-> wkt,
     title |-> None, xml |-> Document("str", FALSE, <<>>), anytext |-> <<>>]

\* a record image with the given parent and source and defaults elsewhere;
\* records get their insert_date (a timestamp text of fixed width, here its
\* position in time) in the order of their identifiers
Record(id, parent, source) ==
    Row(id, parent, source, "csw:Record", IdIndex(id), None)

identifiers(rows) == {r.identifier : r \in rows}

-----------------------------------------------------------------------------
(* SQL text clauses *)

\* the repository masks a deployment configures (repo_filter), or None
Filters == {None, "mdsource = 'local'"}

\* the 'where' texts of the constraints the callers pass
Wheres == {"identifier = :pvalue0", "parentidentifier = :pvalue0", "mdsource = :pvalue0"}

Constraints ==
    {[where |-> "identifier = :pvalue0", values |-> <<i>>] : i \in Ids}
    \cup {[where |-> "parentidentifier = :pvalue0", values |-> <<i>>] : i \in Ids}
    \cup {[where |-> "mdsource = :pvalue0", values |-> <<s>>] : s \in Sources}

\* Repository._create_values: the bound parameters pvalue0, pvalue1, ...
_create_values(values) == [num \in 0..(Len(values) - 1) |-> values[num + 1]]

NoParams == _create_values(<<>>)

\* the truth of a text clause on one row (a NULL column compares unequal)
TextTrue(sqltext, params, row) ==
    CASE sqltext = "mdsource = 'local'" -> row.mdsource = "local"
      [] sqltext = "identifier = :pvalue0" -> row.identifier = params[0]
      [] sqltext = "parentidentifier = :pvalue0" ->
            row.parentidentifier # None /\ row.parentidentifier = params[0]
      [] sqltext = "mdsource = :pvalue0" -> row.mdsource = params[0]
      [] sqltext = "insert_date >= :pvalue0" -> row.insert_date >= params[0]
      [] sqltext = "title = :pvalue0" -> row.title = params[0]
      [] OTHER -> FALSE

\* query.filter(text(...)).params(...)
FilterText(query, sqltext, params) == {row \in query : TextTrue(sqltext, params, row)}

\* Repository._get_repo_filter without the mask: the query as it is
NoRepoFilter(query) == query

\* Repository._get_repo_filter
_get_repo_filter(query) ==
    IF filter # None THEN FilterText(query, filter, NoParams) ELSE query

-----------------------------------------------------------------------------
(* The session: begin / commit / rollback *)

\* a rollback that keeps what the transaction had written so far
RollbackKeepsWork(begun, work) == work

\* session.rollback(): the table is what it was at session.begin()
session_rollback(begun, work) == begun

\* session.commit(): the transaction's writes become the table
session_commit(begun, work) == work

\* what a caller holds between two calls
Idle == [op |-> "idle"]

\* a call that returned a value, or raised an error that has no cause chained
Returned(op, args, value, raised) ==
    [op |-> op, args |-> args, value |-> value, raised |-> raised, cause |-> None]

\* a raise that chains no cause
RaisedUnchained(op, args, raised, cause) ==
    [op |-> op, args |-> args, value |-> 0, raised |-> raised, cause |-> None]

\* raise ... from err
Raised(op, args, raised, cause) ==
    [op |-> op, args |-> args, value |-> 0, raised |-> raised, cause |-> cause]

CannotCommit == "RuntimeError: Cannot commit to repository"

-----------------------------------------------------------------------------
(* Repository.insert *)

InsertFaults == {"none", "commit"}

\* a table without a key
NoPrimaryKey(table, record) == FALSE

\* the INSERT meets the primary key of the table: Column('identifier', Text,
\* primary_key=True) (line 807)
primary_key_violated(table, record) == record.identifier \in identifiers(table)

insert(record, fault) ==
    LET begun == db
        work == begun \cup {[record EXCEPT !.xml = decode(record.xml)]}
        duplicate == primary_key_violated(begun, record)
        args == [identifier |-> record.identifier, record |-> record]
    IN  /\ ret.op = "idle"
        /\ IF duplicate \/ fault # "none"
           THEN /\ db' = session_rollback(begun, work)
                /\ ret' = Returned("insert", args, 0,
                                   IF duplicate THEN "IntegrityError" ELSE "OperationalError")
           ELSE /\ db' = session_commit(begun, work)
                /\ ret' = Returned("insert", args, 0, None)
        /\ UNCHANGED <<filter, rankVars, engineVars, pingVars>>

-----------------------------------------------------------------------------
(* Repository.delete *)

DeleteFaults == {"none", "enumerate", "delete", "cascade", "commit"}

\* the rows the constraint selects, through the mask (lines 541-542)
delete_rows(table, constraint) ==
    FilterText(_get_repo_filter(table), constraint.where, _create_values(constraint.values))

\* no cascade at all
NoChildren(table, parentids) == {}

\* a cascade that goes on to the children of the children
CascadeTwoLevels(table, parentids) ==
    LET kids == {row \in _get_repo_filter(table) : row.parentidentifier \in parentids}
    IN  kids \cup {row \in _get_repo_filter(table) : row.parentidentifier \in identifiers(kids)}

\* the child rows the cascade selects, through the mask (lines 554-557)
delete_children(table, parentids) ==
    {row \in _get_repo_filter(table) : row.parentidentifier \in parentids}

\* a count that forgets the cascade
CountParentsOnly(rows, children) == rows

\* rows += <the cascade's row count> (line 554)
delete_count(rows, children) == rows + children

delete(constraint, fault) ==
    LET begun == db
        matched == delete_rows(begun, constraint)
        parentids == identifiers(matched)
        afterParents == begun \ matched
        rows == Cardinality(matched)
        children == delete_children(afterParents, parentids)
        afterChildren == IF rows > 0 THEN afterParents \ children ELSE afterParents
        total == IF rows > 0 THEN delete_count(rows, Cardinality(children)) ELSE rows
        work == CASE fault \in {"enumerate", "delete"} -> begun
                  [] fault = "cascade" -> afterParents
                  [] OTHER -> afterChildren
        args == [constraint |-> constraint]
    IN  /\ ret.op = "idle"
        /\ fault = "cascade" => rows > 0
        /\ IF fault = "none"
           THEN /\ db' = session_commit(begun, work)
                /\ ret' = Returned("delete", args, total, None)
           ELSE /\ db' = session_rollback(begun, work)
                /\ ret' = Raised("delete", args, CannotCommit, "OperationalError")
        /\ UNCHANGED <<filter, rankVars, engineVars, pingVars>>

-----------------------------------------------------------------------------
(* Repository.update *)

\* a {queryable, value} pair of a property update: rpu['rp'] with its name,
\* its 'xpath' and 'dbcol' entries where the schema has them, and rpu['value']
NoXPath == [axis |-> None, tag |-> None, text |-> None]

Pair(name, locator, dbcol, value) ==
    [name |-> name, xpath |-> locator, dbcol |-> dbcol, value |-> value]

\* an absent record, recprops (None, which is not the empty list) or fault
NoRecord == Row(None, None, None, None, 0, None)

NoRecprops == [none |-> TRUE, list |-> <<>>]

Recprops(list) == [none |-> FALSE, list |-> list]

NoFault == [at |-> "none", pair |-> 0]

Fault(at, pair) == [at |-> at, pair |-> pair]

\* the rows an UPDATE statement of the property update selects, through the
\* mask, when the statement runs (lines 510-511, 518-519)
update_rows(table, constraint) ==
    FilterText(_get_repo_filter(table), constraint.where, _create_values(constraint.values))

\* SET <dbcol> = <value>, for the columns the queryables of the model are
\* bound to
set_column(row, dbcol, value) ==
    CASE dbcol = "title" -> [row EXCEPT !.title = value]
      [] dbcol = "mdsource" -> [row EXCEPT !.mdsource = value]
      [] OTHER -> row

\* the first statement of a pair: the column and the xml of a selected row
column_update(row, rpu) ==
    [set_column(row, rpu.dbcol, rpu.value) EXCEPT
        !.xml = update_xpath("namespaces", row.xml, rpu)]

\* the second statement of a pair: the anytext of a selected row
anytext_update(row) == [row EXCEPT !.anytext = get_anytext(row.xml)]

\* rows += <row count of the column statement> (line 510)
update_count(rows, affected) == rows + affected

\* a check of the pairs that lets every pair pass
PairAccepted(rpu) == None

\* the precondition checks of a pair (lines 504-509): the error raised, or None
pair_error(rpu) ==
    IF rpu.xpath.axis = None THEN "RuntimeError: XPath not found for property"
    ELSE IF rpu.dbcol = None THEN "RuntimeError: property not found for XPath"
    ELSE None

\* the loop over recprops from pair k on: the transaction's rows, the count
\* and the error that ended the loop (or None)
RECURSIVE update_pairs(_, _, _, _, _, _)
update_pairs(work, rows, recprops, k, constraint, fault) ==
    IF k > Len(recprops) THEN [work |-> work, rows |-> rows, err |-> None]
    ELSE IF pair_error(recprops[k]) # None
    THEN [work |-> work, rows |-> rows, err |-> pair_error(recprops[k])]
    ELSE IF fault.at = "column" /\ fault.pair = k
    THEN [work |-> work, rows |-> rows, err |-> "OperationalError"]
    ELSE LET selected == update_rows(work, constraint)
             written == (work \ selected) \cup {column_update(row, recprops[k]) : row \in selected}
             count == update_count(rows, Cardinality(selected))
         IN  IF fault.at = "anytext" /\ fault.pair = k
             THEN [work |-> written, rows |-> count, err |-> "OperationalError"]
             ELSE LET again == update_rows(written, constraint)
                      tokens == (written \ again) \cup {anytext_update(row) : row \in again}
                  IN  update_pairs(tokens, count, recprops, k + 1, constraint, fault)

\* the full update's statement: the row of the record's identifier, through
\* the mask, takes every column of the record
\* an update that inserts the record when it selects no row
UpdateOrInsert(table, record) ==
    LET selected == {row \in _get_repo_filter(table) : row.identifier = record.identifier}
    IN  (table \ selected) \cup {[record EXCEPT !.xml = decode(record.xml)]}

full_update(table, record) ==
    LET selected == {row \in _get_repo_filter(table) : row.identifier = record.identifier}
    IN  (table \ selected) \cup {[record EXCEPT !.xml = decode(record.xml)] : row \in selected}

update(record, recprops, constraint, fault) ==
    LET begun == db
        args == [record |-> record, recprops |-> recprops, constraint |-> constraint]
    IN  /\ ret.op = "idle"
        /\ IF recprops.none /\ constraint.where = None
           THEN \* full update
                LET work == IF fault.at = "update" THEN begun ELSE full_update(begun, record)
                IN  IF fault.at = "none"
                    THEN /\ db' = session_commit(begun, work)
                         /\ ret' = Returned("update", args, None, None)
                    ELSE /\ db' = session_rollback(begun, work)
                         /\ ret' = Raised("update", args, CannotCommit, "OperationalError")
           ELSE \* update based on record properties
                LET done == update_pairs(begun, 0, recprops.list, 1, constraint, fault)
                IN  IF done.err # None
                    THEN /\ db' = session_rollback(begun, done.work)
                         /\ ret' = Raised("update", args, CannotCommit, done.err)
                    ELSE IF fault.at = "commit"
                    THEN /\ db' = session_rollback(begun, done.work)
                         /\ ret' = Raised("update", args, CannotCommit, "OperationalError")
                    ELSE /\ db' = session_commit(begun, done.work)
                         /\ ret' = Returned("update", args, done.rows, None)
        /\ UNCHANGED <<filter, rankVars, engineVars, pingVars>>

-----------------------------------------------------------------------------
(* Repository.query_ids *)

query_ids_rows(table, ids) ==
    _get_repo_filter({row \in table : row.identifier \in ids})

query_ids(ids) ==
    /\ ret.op = "idle"
    /\ ret' = Returned("query_ids", [ids |-> ids], query_ids_rows(db, ids), None)
    /\ UNCHANGED <<repoVars, rankVars, engineVars, pingVars>>

-----------------------------------------------------------------------------
(* Repository.query_source, query_collections, query_domain, query_insert *)

query_source_rows(table, source) ==
    _get_repo_filter({row \in table : row.mdsource = source})

query_source(source) ==
    /\ ret.op = "idle"
    /\ ret' = Returned("query_source", [source |-> source], query_source_rows(db, source), None)
    /\ UNCHANGED <<repoVars, rankVars, engineVars, pingVars>>

\* .limit(limit).all() of a query without an order: any limit of its rows
limit(rows, n) ==
    {some \in SUBSET rows :
        Cardinality(some) = IF Cardinality(rows) < n THEN Cardinality(rows) ELSE n}

\* .filter(filters), where filters is not None
filter_filters(query, filters) ==
    IF filters.where # None
    THEN FilterText(query, filters.where, _create_values(filters.values))
    ELSE query

collection_typenames == {"stac:Collection"}

\* the identifiers the records name as their parent
query_collections_ids(table) ==
    {res \in {row.parentidentifier : row \in _get_repo_filter(table)} : res # None}

query_collections(filters, n) ==
    LET ids == query_collections_ids(db)
        query1 == {row \in db : row.identifier \in ids}
        query2 == {row \in db : row.typename \in collection_typenames}
    IN  /\ ret.op = "idle"
        /\ \E some1 \in limit(filter_filters(_get_repo_filter(query1), filters), n),
              some2 \in limit(filter_filters(_get_repo_filter(query2), filters), n) :
              ret' = Returned("query_collections", [filters |-> filters, limit |-> n],
                              some1 \cup some2, None)
        /\ UNCHANGED <<repoVars, rankVars, engineVars, pingVars>>

\* the NULL an aggregate gives over no rows, among insert dates
NullDate == 0

minimum(values) == IF values = {} THEN NullDate ELSE CHOOSE v \in values : \A w \in values : v <= w

maximum(values) == IF values = {} THEN NullDate ELSE CHOOSE v \in values : \A w \in values : v >= w

\* the NULL of a column
null(domain) == IF domain = "insert_date" THEN NullDate ELSE None

\* count(*): the rows of the group
CountRows(rows, domain, v) == Cardinality({row \in rows : row[domain] = v})

\* func.count(domain_value) for the group of v: the rows of the group whose
\* value is not NULL
count_column(rows, domain, v) ==
    Cardinality({row \in rows : row[domain] = v /\ row[domain] # null(domain)})

query_domain_rows(table, domain, domainquerytype, count) ==
    LET rows == _get_repo_filter(table)
        values == {row[domain] : row \in rows}
    IN  IF domainquerytype = "range"
        THEN {<<minimum(values), maximum(values)>>}
        ELSE IF count
        THEN {<<v, count_column(rows, domain, v)>> : v \in values}
        ELSE {<<v>> : v \in values}

query_domain(domain, domainquerytype, count) ==
    /\ ret.op = "idle"
    /\ ret' = Returned("query_domain",
                       [domain |-> domain, domainquerytype |-> domainquerytype, count |-> count],
                       query_domain_rows(db, domain, domainquerytype, count), None)
    /\ UNCHANGED <<repoVars, rankVars, engineVars, pingVars>>

query_insert_date(table, direction) ==
    LET dates == {row.insert_date : row \in _get_repo_filter(table)}
    IN  IF direction = "min" THEN minimum(dates) ELSE maximum(dates)

query_insert(direction) ==
    /\ ret.op = "idle"
    /\ ret' = Returned("query_insert", [direction |-> direction],
                       query_insert_date(db, direction), None)
    /\ UNCHANGED <<repoVars, rankVars, engineVars, pingVars>>

-----------------------------------------------------------------------------
(* Geometry: shapely.wkt.loads, area and intersection, on axis-parallel     *)
(* boxes with integer corners.                                              *)

\* the texts loads() parses, with the box each denotes; any other text
\* raises in loads()
Shapes ==
    (GeomA :> [x1 |-> 0, y1 |-> 0, x2 |-> 2, y2 |-> 2])
    @@ (GeomB :> [x1 |-> 0, y1 |-> 0, x2 |-> 1, y2 |-> 1])
    @@ (GeomWorld :> [x1 |-> 0, y1 |-> 0, x2 |-> 200, y2 |-> 100])
    @@ (GeomPoint :> [x1 |-> 1, y1 |-> 1, x2 |-> 1, y2 |-> 1])
    @@ (GeomEast :> [x1 |-> 2, y1 |-> 0, x2 |-> 4, y2 |-> 2])
    @@ (GeomFar :> [x1 |-> 5, y1 |-> 5, x2 |-> 6, y2 |-> 6])

\* the texts loads() parses into an invalid geometry, each with a box of
\* its area
InvalidShapes == (GeomBowtie :> [x1 |-> 0, y1 |-> 0, x2 |-> 3, y2 |-> 1])

loads_raises(wkt) == wkt \notin (DOMAIN Shapes \cup DOMAIN InvalidShapes)

loads(wkt) == (Shapes @@ InvalidShapes)[wkt]

Min(a, b) == IF a <= b THEN a ELSE b

Max(a, b) == IF a >= b THEN a ELSE b

area(geom) == (geom.x2 - geom.x1) * (geom.y2 - geom.y1)

\* the area of the box around both geometries
BoundingArea(t, q) ==
    (Max(t.x2, q.x2) - Min(t.x1, q.x1)) * (Max(t.y2, q.y2) - Min(t.y1, q.y1))

intersection_area(t, q) ==
    LET w == Min(t.x2, q.x2) - Max(t.x1, q.x1)
        h == Min(t.y2, q.y2) - Max(t.y1, q.y1)
    IN  IF w > 0 /\ h > 0 THEN w * h ELSE 0

\* an overlay that never fails
IntersectionWorks(t, q) == FALSE

\* t_geom.intersection(q_geom) raises on an invalid geometry
intersection_raises(t, q) ==
    \E wkt \in DOMAIN InvalidShapes : InvalidShapes[wkt] \in {t, q}

-----------------------------------------------------------------------------
(* Texts.  The registered functions return str(), and the database orders   *)
(* what they return as text; a text is the sequence of its characters.      *)

\* the characters met, in code point order
Chars == <<"-", ".", "0", "1", "2", "3", "4", "5", "6", "7", "8", "9", "e">>

Code(ch) == CHOOSE i \in 1..Len(Chars) : Chars[i] = ch

Digits == <<"0", "1", "2", "3", "4", "5", "6", "7", "8", "9">>

\* str() of a natural number
RECURSIVE str(_)
str(n) == IF n < 10 THEN <<Digits[n + 1]>> ELSE Append(str(n \div 10), Digits[(n % 10) + 1])

\* the significant digits str() of a float prints at most
MaxDigits == 17

\* the decimal digits of rem/den after the point
RECURSIVE fraction(_, _, _)
fraction(rem, den, left) ==
    IF rem = 0 \/ left = 0 THEN <<>>
    ELSE <<Digits[((rem * 10) \div den) + 1]>> \o fraction((rem * 10) % den, den, left - 1)

RECURSIVE leading_zeros(_)
leading_zeros(digits) ==
    IF digits = <<>> \/ Head(digits) # "0" THEN 0 ELSE 1 + leading_zeros(Tail(digits))

\* str() of the float num/den >= 0, for a quotient whose decimal expansion
\* ends within MaxDigits digits: fixed notation from 0.0001 up, the exponent
\* form below
float_str(num, den) ==
    LET whole == num \div den
        frac == fraction(num % den, den, MaxDigits)
        zeros == leading_zeros(frac)
        mantissa == SubSeq(frac, zeros + 1, Len(frac))
        exponent == zeros + 1
    IN  IF whole > 0 \/ frac = <<>>
        THEN str(whole) \o <<".">> \o (IF frac = <<>> THEN <<"0">> ELSE frac)
        ELSE IF zeros < 4
        THEN <<"0", ".">> \o frac
        ELSE <<Head(mantissa)>>
             \o (IF Len(mantissa) > 1 THEN <<".">> \o Tail(mantissa) ELSE <<>>)
             \o <<"e", "-">>
             \o (IF exponent < 10 THEN <<"0">> ELSE <<>>) \o str(exponent)

\* the database's order of two texts (BINARY collation: character by
\* character, a proper prefix first)
TextLess(a, b) ==
    \/ /\ Len(a) < Len(b)
       /\ \A i \in 1..Len(a) : a[i] = b[i]
    \/ \E k \in 1..Min(Len(a), Len(b)) :
          /\ Code(a[k]) < Code(b[k])
          /\ \A i \in 1..(k - 1) : a[i] = b[i]

get_geometry_area(geometry) ==
    IF geometry # None
    THEN IF loads_raises(geometry) THEN <<"0">>
         ELSE float_str(area(loads(geometry)), 1)
    ELSE <<"0">>

\* (X/Q)*(X/T): the geometries met make one of the factors 1.0 or both a
\* power of two, so the product is the float nearest X*X/(Q*T)
get_spatial_overlay_rank(target_geometry, query_geometry) ==
    IF target_geometry # None /\ query_geometry # None
    THEN IF loads_raises(query_geometry) \/ loads_raises(target_geometry) THEN <<"0">>
         ELSE LET q_geom == loads(query_geometry)
                  t_geom == loads(target_geometry)
                  Q == area(q_geom)
                  T == area(t_geom)
                  X == intersection_area(t_geom, q_geom)
              IN  IF Q = 0 \/ T = 0 THEN <<"0">>
                  ELSE IF intersection_raises(t_geom, q_geom) THEN <<"0">>
                  ELSE float_str(X * X, Q * T)
    ELSE <<"0">>

-----------------------------------------------------------------------------
(* query_spatial *)

\* the predicates of shapely geometries, on boxes and points
is_point(geom) == geom.x1 = geom.x2 /\ geom.y1 = geom.y2

inside(p, geom) == geom.x1 < p.x1 /\ p.x1 < geom.x2 /\ geom.y1 < p.y1 /\ p.y1 < geom.y2

interiors_meet(a, b) ==
    CASE is_point(a) /\ is_point(b) -> a = b
      [] is_point(a) -> inside(a, b)
      [] is_point(b) -> inside(b, a)
      [] OTHER -> intersection_area(a, b) > 0

intersects(a, b) == a.x1 <= b.x2 /\ b.x1 <= a.x2 /\ a.y1 <= b.y2 /\ b.y1 <= a.y2

disjoint(a, b) == ~intersects(a, b)

touches(a, b) == intersects(a, b) /\ ~interiors_meet(a, b)

contains(a, b) ==
    /\ a.x1 <= b.x1 /\ b.x2 <= a.x2 /\ a.y1 <= b.y1 /\ b.y2 <= a.y2
    /\ interiors_meet(a, b)

within(a, b) == contains(b, a)

equals(a, b) == a = b

\* no point and no polygon crosses a point or a polygon
crosses(a, b) == FALSE

\* the square of a.distance(b)
distance2(a, b) ==
    LET dx == Max(0, Max(a.x1 - b.x2, b.x1 - a.x2))
        dy == Max(0, Max(a.y1 - b.y2, b.y1 - a.y2))
    IN  dx * dx + dy * dy

\* the texts float() converts, with their values; float() of any other
\* argument raises
Floats == ("0" :> 0) @@ ("1" :> 1) @@ ("3" :> 3)

float_raises(distance) == distance \notin DOMAIN Floats

float(distance) == Floats[distance]

\* extended well-known text, with the text after its last ';'
Prefixed == [ewkt \in {"SRID=4326;" \o wkt : wkt \in {GeomA, GeomFar}} |->
                CHOOSE wkt \in {GeomA, GeomFar} : ewkt = "SRID=4326;" \o wkt]

\* bbox_data_wkt.split(';')[-1]
split_last(wkt) == IF wkt \in DOMAIN Prefixed THEN Prefixed[wkt] ELSE wkt

Predicates ==
    {"bbox", "beyond", "contains", "crosses", "disjoint", "dwithin", "equals",
     "intersects", "overlaps", "touches", "within"}

\* the texts query_spatial returns
true == <<"t", "r", "u", "e">>

false == <<"f", "a", "l", "s", "e">>

\* what the body of the try comes to: a result, or an error raised
Evaluated(result) == [result |-> result, raised |-> None]

Failed(error) == [result |-> FALSE, raised |-> error]

\* the chain of lines 636-660 on two loaded geometries
spatial_predicate(bbox1, bbox2, predicate, distance) ==
    CASE predicate = "bbox" -> Evaluated(intersects(bbox1, bbox2))
      [] predicate = "beyond" ->
            IF float_raises(distance) THEN Failed("ValueError")
            ELSE Evaluated(distance2(bbox1, bbox2) > float(distance) * float(distance))
      [] predicate = "contains" -> Evaluated(contains(bbox1, bbox2))
      [] predicate = "crosses" -> Evaluated(crosses(bbox1, bbox2))
      [] predicate = "disjoint" -> Evaluated(disjoint(bbox1, bbox2))
      [] predicate = "dwithin" ->
            IF float_raises(distance) THEN Failed("ValueError")
            ELSE Evaluated(distance2(bbox1, bbox2) <= float(distance) * float(distance))
      [] predicate = "equals" -> Evaluated(equals(bbox1, bbox2))
      [] predicate = "intersects" -> Evaluated(intersects(bbox1, bbox2))
      [] predicate = "overlaps" -> Evaluated(intersects(bbox1, bbox2) /\ ~touches(bbox1, bbox2))
      [] predicate = "touches" -> Evaluated(touches(bbox1, bbox2))
      [] predicate = "within" -> Evaluated(within(bbox1, bbox2))
      [] OTHER -> Failed("RuntimeError")

\* a handler that catches nothing
CaughtNothing == {}

\* the errors line 662 catches
Caught == {"AttributeError", "ValueError", "ShapelyError", "TypeError"}

\* the body of the try: both geometries loaded, then the chain
spatial_try(bbox_data_wkt, bbox_input_wkt, predicate, distance) ==
    IF bbox_data_wkt = None THEN Failed("AttributeError")
    ELSE IF loads_raises(split_last(bbox_data_wkt)) \/ loads_raises(bbox_input_wkt)
    THEN Failed("ShapelyError")
    ELSE spatial_predicate(loads(split_last(bbox_data_wkt)), loads(bbox_input_wkt),
                           predicate, distance)

\* what query_spatial returns, or the error it raises
query_spatial(bbox_data_wkt, bbox_input_wkt, predicate, distance) ==
    LET tried == spatial_try(bbox_data_wkt, bbox_input_wkt, predicate, distance)
    IN  IF tried.raised = None
        THEN [value |-> IF tried.result THEN true ELSE false, raised |-> None]
        ELSE IF tried.raised \in Caught
        THEN [value |-> false, raised |-> None]
        ELSE [value |-> <<>>, raised |-> tried.raised]

\* the database calls query_spatial for a row of a spatial constraint
call_query_spatial(bbox_data_wkt, bbox_input_wkt, predicate, distance) ==
    LET args == [bbox_data_wkt |-> bbox_data_wkt, bbox_input_wkt |-> bbox_input_wkt,
                 predicate |-> predicate, distance |-> distance]
        result == query_spatial(bbox_data_wkt, bbox_input_wkt, predicate, distance)
    IN  /\ ret.op = "idle"
        /\ ret' = Returned("query_spatial", args, result.value, result.raised)
        /\ UNCHANGED <<repoVars, rankVars, engineVars, pingVars>>

\* the database calls get_spatial_overlay_rank for a row of a ranked query
call_get_spatial_overlay_rank(target_geometry, query_geometry) ==
    /\ ret.op = "idle"
    /\ ret' = Returned("get_spatial_overlay_rank",
                       [target_geometry |-> target_geometry, query_geometry |-> query_geometry],
                       get_spatial_overlay_rank(target_geometry, query_geometry), None)
    /\ UNCHANGED <<repoVars, rankVars, engineVars, pingVars>>

-----------------------------------------------------------------------------
(* ORDER BY, LIMIT and OFFSET *)

\* an order_by() clause: the overlay rank against a geometry, the area of a
\* geometry column, or a column's value
RankClause(geometry, desc) ==
    [key |-> "rank", column |-> "wkt_geometry", geometry |-> geometry, desc |-> desc]

AreaClause(column, desc) ==
    [key |-> "area", column |-> column, geometry |-> None, desc |-> desc]

ColumnClause(column, desc) ==
    [key |-> "column", column |-> column, geometry |-> None, desc |-> desc]

\* row a has a smaller key than row b under the clause
KeyLess(clause, a, b) ==
    CASE clause.key = "rank" ->
            TextLess(get_spatial_overlay_rank(a[clause.column], clause.geometry),
                     get_spatial_overlay_rank(b[clause.column], clause.geometry))
      [] clause.key = "area" ->
            TextLess(get_geometry_area(a[clause.column]), get_geometry_area(b[clause.column]))
      [] OTHER -> a[clause.column] < b[clause.column]

\* the clause puts row a strictly before row b
ClauseBefore(clause, a, b) ==
    IF clause.desc THEN KeyLess(clause, b, a) ELSE KeyLess(clause, a, b)

\* the clauses, first to last, put row a strictly before row b
OrderBefore(order, a, b) ==
    \E k \in 1..Len(order) :
        /\ ClauseBefore(order[k], a, b)
        /\ \A j \in 1..(k - 1) :
              ~ClauseBefore(order[j], a, b) /\ ~ClauseBefore(order[j], b, a)

\* every arrangement of the rows
Arrangements(rows) ==
    LET n == Cardinality(rows)
    IN  {s \in [1..n -> rows] : \A i, j \in 1..n : i # j => s[i] # s[j]}

\* .all() of an ordered query: the rows in an order the clauses allow (rows
\* the clauses do not order come in any order)
all(rows, order) ==
    {s \in Arrangements(rows) :
        \A i, j \in 1..Len(s) : i < j => ~OrderBefore(order, s[j], s[i])}

\* .limit(maxrecords).offset(startposition)
limit_offset(s, maxrecords, startposition) ==
    SubSeq(s, startposition + 1, Min(startposition + maxrecords, Len(s)))

-----------------------------------------------------------------------------
(* The ranking request: the request parser sets util.ranking_pass and       *)
(* util.ranking_query_geometry for a spatial filter (outside this file)     *)

activate(caller, geometry) ==
    /\ ret.op = "idle"
    /\ ranking_pass' = TRUE
    /\ ranking_query_geometry' = geometry
    /\ ranking_owner' = caller
    /\ thief' = [thief EXCEPT ![caller] = None]
    /\ UNCHANGED <<repoVars, engineVars, ret, pingVars>>

-----------------------------------------------------------------------------
(* Repository.query *)

NoConstraint == [where |-> None, values |-> <<>>]

NoSort == [propertyname |-> None, order |-> None, spatial |-> FALSE]

QueryFaults == {"none", "count", "page"}

\* a count taken without the mask
CountUnmasked(query) == Cardinality(query)

\* self._get_repo_filter(query).count() (line 426)
query_count(query) == Cardinality(_get_repo_filter(query))

\* a flag that is read per caller
RankingOfCaller(caller) == ranking_pass /\ ranking_owner = caller

\* a flag that is never seen
RankingNeverDetected(caller) == FALSE

\* if util.ranking_pass (line 428)
ranking_detected(caller) == ranking_pass

query(caller, constraint, sortby, maxrecords, startposition, fault) ==
    LET constrained ==
            IF constraint.where # None
            THEN FilterText(db, constraint.where, _create_values(constraint.values))
            ELSE db
        total == query_count(constrained)
        ranked == ranking_detected(caller)
        ranking == IF ranked THEN <<RankClause(ranking_query_geometry, TRUE)>> ELSE <<>>
        order ==
            IF sortby.propertyname # None
            THEN Append(ranking,
                        IF sortby.spatial
                        THEN AreaClause(sortby.propertyname, sortby.order = "DESC")
                        ELSE ColumnClause(sortby.propertyname, sortby.order = "DESC"))
            ELSE ranking
        pages == {limit_offset(s, maxrecords, startposition) :
                     s \in all(_get_repo_filter(constrained), order)}
        args == [caller |-> caller, constraint |-> constraint, sortby |-> sortby,
                 maxrecords |-> maxrecords, startposition |-> startposition]
    \* a raise carries, as the traceback does, the statement that raised
    IN  /\ ret.op = "idle"
        /\ IF fault = "count"
           THEN /\ ret' = Returned("query", args, "count", "OperationalError")
                /\ UNCHANGED rankVars
           ELSE /\ IF ranked
                   THEN /\ ranking_pass' = FALSE
                        /\ ranking_query_geometry' = ""
                        /\ ranking_owner' = None
                   ELSE UNCHANGED <<ranking_pass, ranking_query_geometry, ranking_owner>>
                /\ thief' = [c \in Callers |->
                                IF c = caller THEN None
                                ELSE IF ranked /\ c = ranking_owner THEN caller
                                ELSE thief[c]]
                /\ IF fault = "page"
                   THEN ret' = Returned("query", args, "page", "OperationalError")
                   ELSE \E page \in pages :
                           ret' = Returned("query", args,
                                      [total |-> str(total),
                                       page |-> [i \in 1..Len(page) |-> page[i].identifier],
                                       ranked |-> ranked,
                                       geometry |-> IF ranked THEN ranking_query_geometry ELSE "",
                                       stolen_by |-> thief[caller]],
                                      None)
        /\ UNCHANGED <<repoVars, engineVars, pingVars>>

-----------------------------------------------------------------------------
(* Repository.ping, statement by statement *)

\* the largest max_tries the callers pass
MaxTries == 3

WaitSeconds == {1, 10}

\* what engine.execute(sql) does: it returns, raises OperationalError, or
\* raises an error that is not an OperationalError
ProbeOutcomes == {"ok", "OperationalError", "ProgrammingError"}

\* the locals of ping, the probes made and the seconds slept
NotPinging ==
    [at |-> "idle", max_tries |-> 0, wait_seconds |-> 0, current_try |-> 0,
     attempts |-> 0, slept |-> 0]

\* a loop that goes round once more
TriesLeftInclusive(current_try, max_tries) == current_try <= max_tries

\* while current_try < max_tries (line 253)
tries_left(current_try, max_tries) == current_try < max_tries

\* what a finished ping leaves in ret
ping_finished(raised) ==
    /\ ret' = Returned("ping",
                       [max_tries |-> pinging.max_tries, wait_seconds |-> pinging.wait_seconds],
                       [current_try |-> pinging'.current_try,
                        attempts |-> pinging'.attempts,
                        slept |-> pinging'.slept],
                       raised)

\* the call is entered: current_try = 0 (lines 242-252)
ping(max_tries, wait_seconds) ==
    /\ ret.op = "idle"
    /\ pinging.at = "idle"
    /\ pinging' = [at |-> "while", max_tries |-> max_tries, wait_seconds |-> wait_seconds,
                   current_try |-> 0, attempts |-> 0, slept |-> 0]
    /\ UNCHANGED <<repoVars, rankVars, engineVars, ret>>

\* the test of the while, and its else branch (lines 253, 261-263)
ping_while ==
    /\ pinging.at = "while"
    /\ IF tries_left(pinging.current_try, pinging.max_tries)
       THEN /\ pinging' = [pinging EXCEPT !.at = "execute"]
            /\ UNCHANGED ret
       ELSE /\ pinging' = [pinging EXCEPT !.at = "idle"]
            /\ ping_finished("RuntimeError")
    /\ UNCHANGED <<repoVars, rankVars, engineVars>>

\* engine.execute(sql), the break and the except clause (lines 254-259)
ping_execute(outcome) ==
    /\ pinging.at = "execute"
    /\ CASE outcome = "ok" ->
              /\ pinging' = [pinging EXCEPT !.at = "idle", !.attempts = @ + 1]
              /\ ping_finished(None)
         [] outcome = "OperationalError" ->
              /\ pinging' = [pinging EXCEPT !.at = "sleep", !.attempts = @ + 1,
                                            !.current_try = @ + 1]
              /\ UNCHANGED ret
         [] OTHER ->
              /\ pinging' = [pinging EXCEPT !.at = "idle", !.attempts = @ + 1]
              /\ ping_finished(outcome)
    /\ UNCHANGED <<repoVars, rankVars, engineVars>>

\* sleep(wait_seconds) (line 260)
ping_sleep ==
    /\ pinging.at = "sleep"
    /\ pinging' = [pinging EXCEPT !.at = "while", !.slept = @ + pinging.wait_seconds]
    /\ UNCHANGED <<repoVars, rankVars, engineVars, ret>>

-----------------------------------------------------------------------------
(* Repository.create_engine and Repository.__init__ *)

\* database URLs, as the scheme with its slashes and the rest: a relative
\* and an absolute SQLite path and a PostgreSQL database
Databases ==
    {[scheme |-> "sqlite:///", rest |-> "records.db"],
     [scheme |-> "sqlite:///", rest |-> "/srv/records.db"],
     [scheme |-> "postgresql://", rest |-> "pg/csw"]}

\* the rests that begin with a slash
AbsolutePaths == {"/srv/records.db"}

AppRoots == {None, "/srv"}

\* '%s' % self.database
url_of(database) == database.scheme \o database.rest

\* self.database after the rewrite of a relative SQLite path
absolute_database(database, app_root) ==
    IF /\ app_root # None
       /\ database.scheme = "sqlite:///"
       /\ database.rest \notin AbsolutePaths
    THEN [scheme |-> "sqlite:///", rest |-> app_root \o "/" \o database.rest]
    ELSE database

\* engine.name, the dialect the URL names
engine_name(database) == IF database.scheme = "sqlite:///" THEN "sqlite" ELSE "postgresql"

\* a cache that is never hit
NeverCached(url) == FALSE

\* not (url not in clazz._engines)
engine_cached(url) == url \in DOMAIN _engines

\* clazz._engines after create_engine(url)
engines_after(database) ==
    LET url == url_of(database)
    IN  IF engine_cached(url) THEN _engines
        ELSE [u \in DOMAIN _engines \cup {url} |->
                 IF u = url
                 THEN [name |-> engine_name(database), url |-> url,
                       serial |-> engines_created + 1]
                 ELSE _engines[u]]

created_after(database) ==
    IF engine_cached(url_of(database)) THEN engines_created ELSE engines_created + 1

create_engine(database) ==
    LET url == url_of(database)
    IN  /\ ret.op = "idle"
        /\ _engines' = engines_after(database)
        /\ engines_created' = created_after(database)
        /\ ret' = Returned("create_engine", [url |-> url], engines_after(database)[url], None)
        /\ UNCHANGED <<repoVars, rankVars, first, threads, pingVars>>

\* create_engine statement by statement, for callers that run in the threads
\* of one process: the position of a caller and its locals url and engine,
\* and the engine the call returned
NoEngine == [name |-> None, url |-> None, serial |-> 0]

NoDatabase == [scheme |-> None, rest |-> None]

NotCalling == [at |-> "idle", database |-> NoDatabase, engine |-> NoEngine, returned |-> NoEngine]

\* the call is entered (line 59)
create_engine_enter(caller, database) ==
    /\ threads[caller].at \in {"idle", "done"}
    /\ threads' = [threads EXCEPT ![caller] =
                      [at |-> "check", database |-> database,
                       engine |-> NoEngine, returned |-> NoEngine]]
    /\ UNCHANGED <<repoVars, rankVars, _engines, engines_created, first, ret, pingVars>>

\* if url not in clazz._engines (line 71)
create_engine_check(caller) ==
    /\ threads[caller].at = "check"
    /\ threads' = [threads EXCEPT ![caller].at =
                      IF engine_cached(url_of(threads[caller].database)) THEN "return" ELSE "create"]
    /\ UNCHANGED <<repoVars, rankVars, _engines, engines_created, first, ret, pingVars>>

\* engine = create_engine(...) and the listener bound to it (lines 73-83)
create_engine_create(caller) ==
    /\ threads[caller].at = "create"
    /\ engines_created' = engines_created + 1
    /\ threads' = [threads EXCEPT
                      ![caller].at = "store",
                      ![caller].engine =
                          [name |-> engine_name(threads[caller].database),
                           url |-> url_of(threads[caller].database),
                           serial |-> engines_created + 1]]
    /\ UNCHANGED <<repoVars, rankVars, _engines, first, ret, pingVars>>

\* clazz._engines[url] = engine (line 85)
create_engine_store(caller) ==
    /\ threads[caller].at = "store"
    /\ _engines' = [u \in DOMAIN _engines \cup {url_of(threads[caller].database)} |->
                       IF u = url_of(threads[caller].database) THEN threads[caller].engine
                       ELSE _engines[u]]
    /\ threads' = [threads EXCEPT ![caller].at = "return"]
    /\ UNCHANGED <<repoVars, rankVars, engines_created, first, ret, pingVars>>

\* return clazz._engines[url] (line 87)
create_engine_return(caller) ==
    /\ threads[caller].at = "return"
    /\ threads' = [threads EXCEPT
                      ![caller].at = "done",
                      ![caller].returned = _engines[url_of(threads[caller].database)]]
    /\ UNCHANGED <<repoVars, rankVars, _engines, engines_created, first, ret, pingVars>>

\* what the backend answers to the four probes of one construction: the two
\* PostGIS version probes, the geometry_columns probe (a column name, no
\* row, or a failure) and the pg_class probe for fts_gin_idx
ProbeAnswers ==
    [postgis1 : {"ok", "fail"},
     postgis2 : {"ok", "fail"},
     native : {"wkb_geometry", "geom", "norow", "fail"},
     fts : {"found", "absent", "fail"}]

Unasked == [postgis1 |-> "unasked", postgis2 |-> "unasked", native |-> "unasked", fts |-> "unasked"]

GeometryColumns == {"wkb_geometry", "geom"}

\* probes that are asked of a url once
ProbingFirstOnly(dbtype, url) == dbtype = "postgresql" /\ url \notin DOMAIN first

\* if self.dbtype == 'postgresql'
probing(dbtype, url) == dbtype = "postgresql"

\* the statements a probing construction executes (lines 173, 181, 189, 204)
ProbeStatements == 4

\* the capability descriptor of a Repository
descriptor(repository) ==
    [dialect |-> repository.engine.name,
     dbtype |-> repository.dbtype,
     postgis_geometry_column |-> repository.postgis_geometry_column,
     fts |-> repository.fts]

__init__(database, app_root, repo_filter, answers) ==
    LET self_database == absolute_database(database, app_root)
        url == url_of(self_database)
        engine == engines_after(self_database)[url]
        probed == probing(engine.name, url)
        temp1 == IF probed /\ answers.postgis1 = "ok" THEN "postgresql+postgis+wkt" ELSE None
        temp2 == IF probed /\ answers.postgis2 = "ok" THEN "postgresql+postgis+wkt" ELSE temp1
        native == probed /\ answers.native \in GeometryColumns
        temp3 == IF native THEN "postgresql+postgis+native" ELSE temp2
        dbtype == IF temp3 # None THEN temp3 ELSE engine.name
        repository ==
            [database |-> url,
             engine |-> engine,
             filter |-> repo_filter,
             dbtype |-> dbtype,
             postgis_geometry_column |-> IF native THEN answers.native ELSE None,
             fts |-> probed /\ answers.fts = "found",
             probes |-> IF probed THEN ProbeStatements ELSE 0]
        args == [database |-> database, app_root |-> app_root, url |-> url,
                 answers |-> IF probed THEN answers ELSE Unasked]
    IN  /\ ret.op = "idle"
        /\ _engines' = engines_after(self_database)
        /\ engines_created' = created_after(self_database)
        /\ IF probed /\ answers.fts = "fail"
           THEN /\ ret' = Returned("__init__", args, 0, "OperationalError")
                /\ UNCHANGED first
           ELSE IF dbtype = "postgresql+postgis+native" /\ answers.native # "wkb_geometry"
           THEN /\ ret' = Returned("__init__", args, 0, "AttributeError")
                /\ UNCHANGED first
           ELSE /\ ret' = Returned("__init__", args, repository, None)
                /\ first' = IF url \in DOMAIN first THEN first
                            ELSE [u \in DOMAIN first \cup {url} |->
                                     IF u = url THEN descriptor(repository) ELSE first[u]]
        /\ UNCHANGED <<repoVars, rankVars, threads, pingVars>>

-----------------------------------------------------------------------------
(* The caller takes the returned value (or the raised error) *)

Return ==
    /\ ret.op # "idle"
    /\ ret' = Idle
    /\ UNCHANGED <<repoVars, rankVars, engineVars, pingVars>>

-----------------------------------------------------------------------------
(* Specification: the mutations of the records table *)

\* the identifier lists the callers ask query_ids for
MaxIdList == 2

IdLists == {ids \in SUBSET Ids : Cardinality(ids) <= MaxIdList}

\* the record images the callers insert
Images == {Record(i, p, s) : i \in Ids, p \in {None} \cup Ids, s \in Sources}

Init ==
    /\ db = {}
    /\ filter \in Filters
    /\ ranking_pass = FALSE
    /\ ranking_query_geometry = ""
    /\ ranking_owner = None
    /\ thief = [c \in Callers |-> None]
    /\ _engines = <<>>
    /\ engines_created = 0
    /\ first = <<>>
    /\ threads = [c \in Callers |-> NotCalling]
    /\ pinging = NotPinging
    /\ ret = Idle

Next ==
    \/ \E record \in Images, fault \in InsertFaults : insert(record, fault)
    \/ \E constraint \in Constraints, fault \in DeleteFaults : delete(constraint, fault)
    \/ \E ids \in IdLists : query_ids(ids)
    \/ Return

Spec == Init /\ [][Next]_vars

-----------------------------------------------------------------------------
(* Specification: queries with ranking, sorting and paging *)

\* the rows the table holds at most in the query specifications
MaxRows == 2

QueryIds == {AllIds[i] : i \in 1..MaxRows}

\* the largest maxrecords the callers pass
MaxPage == 2

StartPositions == {0, 1}

QueryImages ==
    {Row(i, None, s, "csw:Record", IdIndex(i), g) :
        i \in QueryIds, s \in Sources, g \in {None, GeomB, GeomWorld}}

QueryConstraints ==
    {NoConstraint,
     [where |-> "insert_date >= :pvalue0", values |-> <<2>>],
     [where |-> "mdsource = :pvalue0", values |-> <<"remote">>]}

SortBys ==
    {NoSort}
    \cup {[propertyname |-> "insert_date", order |-> o, spatial |-> FALSE] : o \in {"ASC", "DESC"}}
    \cup {[propertyname |-> "wkt_geometry", order |-> o, spatial |-> TRUE] : o \in {"ASC", "DESC"}}

\* the query geometries of the ranking requests
QueryGeometries == {GeomA, GeomWorld, GeomPoint}

NextQuery ==
    \/ \E record \in QueryImages : insert(record, "none")
    \/ \E geometry \in QueryGeometries : activate("A", geometry)
    \/ \E constraint \in QueryConstraints, sortby \in SortBys,
          maxrecords \in 0..MaxPage, startposition \in StartPositions, fault \in QueryFaults :
          query("A", constraint, sortby, maxrecords, startposition, fault)
    \/ Return

SpecQuery == Init /\ [][NextQuery]_vars

(* Specification: two callers of one process, each announcing a ranking    *)
(* request and then querying                                               *)

RaceImages ==
    {Row(i, None, "local", "csw:Record", IdIndex(i), g) : i \in QueryIds, g \in {None, GeomB, GeomWorld}}

NextRace ==
    \/ \E record \in RaceImages : insert(record, "none")
    \/ \E caller \in Callers, geometry \in QueryGeometries : activate(caller, geometry)
    \/ \E caller \in Callers : query(caller, NoConstraint, NoSort, MaxPage, 0, "none")
    \/ Return

SpecRace == Init /\ [][NextRace]_vars

-----------------------------------------------------------------------------
(* Specification: the read methods over a table of parents, children and   *)
(* collections from two sources                                            *)

ReadImages ==
    {Row(i, p, s, t, IdIndex(i), None) :
        i \in QueryIds, p \in {None} \cup QueryIds, s \in Sources, t \in Typenames}

ReadConstraints == {NoConstraint, [where |-> "mdsource = :pvalue0", values |-> <<"remote">>]}

DateAscending == [propertyname |-> "insert_date", order |-> "ASC", spatial |-> FALSE]

\* the (domain, domainquerytype, count) arguments of query_domain
DomainQueries ==
    {<<"insert_date", "range", FALSE>>, <<"insert_date", "list", TRUE>>,
     <<"mdsource", "list", FALSE>>, <<"mdsource", "list", TRUE>>,
     <<"typename", "list", FALSE>>, <<"parentidentifier", "list", TRUE>>}

NextRead ==
    \/ \E record \in ReadImages : insert(record, "none")
    \/ \E constraint \in ReadConstraints : query("A", constraint, DateAscending, MaxRows, 0, "none")
    \/ \E ids \in SUBSET QueryIds : query_ids(ids)
    \/ \E source \in Sources : query_source(source)
    \/ \E filters \in ReadConstraints, n \in 1..MaxRows : query_collections(filters, n)
    \/ \E q \in DomainQueries : query_domain(q[1], q[2], q[3])
    \/ \E direction \in {"min", "max"} : query_insert(direction)
    \/ Return

SpecRead == Init /\ [][NextRead]_vars

-----------------------------------------------------------------------------
(* Specification: Repository constructions and create_engine calls of one  *)
(* process                                                                 *)

NextInit ==
    \/ \E database \in Databases : create_engine(database)
    \/ \E database \in Databases, app_root \in AppRoots, repo_filter \in Filters,
          answers \in ProbeAnswers :
          __init__(database, app_root, repo_filter, answers)
    \/ Return

SpecInit == Init /\ [][NextInit]_vars

-----------------------------------------------------------------------------
(* Specification: inserts, full updates and property updates of records    *)
(* that carry a title in a column, in their xml and in their anytext       *)

UpdateIds == {"r1", "r2"}

\* a record image: the title in the column, in the document and in the
\* anytext derived from the document
TitleRecord(id, source, encoding, title) ==
    [Row(id, None, source, "csw:Record", IdIndex(id), None) EXCEPT
        !.title = title,
        !.xml = Document(encoding, TRUE, <<Element("dc:title", title)>>),
        !.anytext = <<title>>]

UpdateImages ==
    {TitleRecord(i, s, encoding, t) :
        i \in UpdateIds, s \in Sources, encoding \in {"bytes", "str"}, t \in Texts}

\* the pairs of the property updates: the title set to a text, a queryable
\* the schema gives no XPath for, and one it gives no column for
Pairs ==
    {Pair("dc:title", XPathAll("dc:title"), "title", t) : t \in Texts}
    \cup {Pair("dc:date", NoXPath, "title", "new"),
          Pair("dc:format", XPathAll("dc:title"), None, "new")}

\* the pairs of one property update, at most
MaxPairs == 2

PairLists == UNION {{SubSeq(list, 1, n) : list \in [1..n -> Pairs]} : n \in 0..MaxPairs}

UpdateConstraints ==
    {[where |-> "identifier = :pvalue0", values |-> <<"r1">>],
     [where |-> "title = :pvalue0", values |-> <<"old">>]}

FullUpdateFaults == {NoFault, Fault("update", 0), Fault("commit", 0)}

PropertyUpdateFaults ==
    {NoFault, Fault("commit", 0)}
    \cup {Fault(at, k) : at \in {"column", "anytext"}, k \in 1..MaxPairs}

\* the calls of update: full updates by a record image, property updates by
\* a list of pairs and a constraint
UpdateCalls ==
    {[record |-> record, recprops |-> NoRecprops, constraint |-> NoConstraint, fault |-> fault] :
        record \in UpdateImages, fault \in FullUpdateFaults}
    \cup {[record |-> NoRecord, recprops |-> Recprops(list), constraint |-> constraint, fault |-> fault] :
            list \in PairLists, constraint \in UpdateConstraints, fault \in PropertyUpdateFaults}

NextUpdate ==
    \/ \E record \in UpdateImages, fault \in InsertFaults : insert(record, fault)
    \/ \E constraint \in UpdateConstraints, fault \in DeleteFaults : delete(constraint, fault)
    \/ \E call \in UpdateCalls : update(call.record, call.recprops, call.constraint, call.fault)
    \/ \E ids \in SUBSET UpdateIds : query_ids(ids)
    \/ Return

SpecUpdate == Init /\ [][NextUpdate]_vars

-----------------------------------------------------------------------------
(* Specification: ranking requests and every method of the repository that *)
(* reads or writes records                                                 *)

FrameImages == {TitleRecord(i, s, "str", "old") : i \in UpdateIds, s \in Sources}

FrameConstraint == [where |-> "identifier = :pvalue0", values |-> <<"r1">>]

FrameUpdateCalls ==
    {[record |-> TitleRecord("r1", "local", "str", "new"), recprops |-> NoRecprops,
      constraint |-> NoConstraint, fault |-> NoFault],
     [record |-> NoRecord,
      recprops |-> Recprops(<<Pair("dc:title", XPathAll("dc:title"), "title", "new")>>),
      constraint |-> FrameConstraint, fault |-> NoFault]}

NextFrame ==
    \/ \E caller \in Callers, geometry \in {GeomA, GeomWorld} : activate(caller, geometry)
    \/ \E caller \in Callers, fault \in QueryFaults :
          query(caller, NoConstraint, NoSort, MaxPage, 0, fault)
    \/ \E ids \in SUBSET UpdateIds : query_ids(ids)
    \/ \E filters \in ReadConstraints : query_collections(filters, 1)
    \/ \E q \in {<<"mdsource", "list", FALSE>>, <<"mdsource", "list", TRUE>>} :
          query_domain(q[1], q[2], q[3])
    \/ \E source \in Sources : query_source(source)
    \/ \E direction \in {"min", "max"} : query_insert(direction)
    \/ \E record \in FrameImages, fault \in InsertFaults : insert(record, fault)
    \/ \E call \in FrameUpdateCalls :
          update(call.record, call.recprops, call.constraint, call.fault)
    \/ \E fault \in {"none", "commit"} : delete(FrameConstraint, fault)
    \/ Return

SpecFrame == Init /\ [][NextFrame]_vars

-----------------------------------------------------------------------------
(* Specification: two callers that construct repositories in threads of    *)
(* one process, create_engine taken statement by statement                 *)

NextThreads ==
    \/ \E caller \in Callers, database \in Databases : create_engine_enter(caller, database)
    \/ \E caller \in Callers : create_engine_check(caller)
    \/ \E caller \in Callers : create_engine_create(caller)
    \/ \E caller \in Callers : create_engine_store(caller)
    \/ \E caller \in Callers : create_engine_return(caller)

SpecThreads == Init /\ [][NextThreads]_vars

-----------------------------------------------------------------------------
(* Specification: ping against a backend that answers, refuses the         *)
(* connection or fails otherwise; in the fair specification the thread of  *)
(* the caller goes on and every probe and every sleep comes back           *)

PingStep == ping_while \/ (\E outcome \in ProbeOutcomes : ping_execute(outcome)) \/ ping_sleep

NextPing ==
    \/ \E max_tries \in 0..MaxTries, wait_seconds \in WaitSeconds : ping(max_tries, wait_seconds)
    \/ ping_while
    \/ \E outcome \in ProbeOutcomes : ping_execute(outcome)
    \/ ping_sleep
    \/ Return

SpecPing == Init /\ [][NextPing]_vars /\ WF_vars(PingStep)

-----------------------------------------------------------------------------
(* Specification: update_xpath applied to documents, and again to what it  *)
(* returns                                                                 *)

\* the elements of a document, at most
MaxNodes == 2

Elements == {Element(tag, content) : tag \in Tags, content \in Texts}

NodeLists == UNION {{SubSeq(list, 1, n) : list \in [1..n -> Elements]} : n \in 0..MaxNodes}

Documents ==
    {Document(encoding, declaration, nodes) :
        encoding \in {"bytes", "str"}, declaration \in BOOLEAN, nodes \in NodeLists}

Locators ==
    {XPathAll(tag) : tag \in Tags}
    \cup {XPathText(tag, content) : tag \in Tags, content \in Texts}
    \cup {XPathFirstOther(tag, content) : tag \in Tags, content \in Texts}

XPathUpdates == {Pair(locator.tag, locator, "title", content) : locator \in Locators, content \in Texts}

\* the database calls update_xpath on the xml a statement is at: a stored
\* document, or the document an earlier call returned
call_update_xpath(recprop) ==
    /\ ret.op \in {"xml", "update_xpath"}
    /\ ret' = Returned("update_xpath", [xml |-> ret.value, recprop |-> recprop],
                       update_xpath("namespaces", ret.value, recprop), None)
    /\ UNCHANGED <<repoVars, rankVars, engineVars, pingVars>>

InitXPath ==
    /\ db = {}
    /\ filter = None
    /\ ranking_pass = FALSE
    /\ ranking_query_geometry = ""
    /\ ranking_owner = None
    /\ thief = [c \in Callers |-> None]
    /\ _engines = <<>>
    /\ engines_created = 0
    /\ first = <<>>
    /\ threads = [c \in Callers |-> NotCalling]
    /\ pinging = NotPinging
    /\ ret \in {Returned("xml", <<>>, xml, None) : xml \in Documents}

NextXPath == \E recprop \in XPathUpdates : call_update_xpath(recprop)

SpecXPath == InitXPath /\ [][NextXPath]_vars

-----------------------------------------------------------------------------
(* Specification: query_spatial on well-formed, malformed and absent       *)
(* geometries, with supported and unknown predicates                       *)

\* the geometry texts of the calls: well-known text, extended well-known
\* text, the empty text and a text that is no geometry
WktTexts == DOMAIN Shapes \cup DOMAIN Prefixed \cup {"", "not a geometry"}

SpatialPredicates == Predicates \cup {"nearby", ""}

Distances == DOMAIN Floats \cup {None, "far"}

NextSpatial ==
    \/ \E bbox_data_wkt \in WktTexts \cup {None}, bbox_input_wkt \in WktTexts,
          predicate \in SpatialPredicates, distance \in Distances :
             call_query_spatial(bbox_data_wkt, bbox_input_wkt, predicate, distance)
    \/ Return

SpecSpatial == Init /\ [][NextSpatial]_vars

-----------------------------------------------------------------------------
(* Specification: get_spatial_overlay_rank on pairs of geometries *)

RankGeometries ==
    DOMAIN Shapes \cup DOMAIN InvalidShapes \cup {None, "", "not a geometry"}

NextRank ==
    \/ \E target_geometry \in RankGeometries, query_geometry \in RankGeometries :
          call_get_spatial_overlay_rank(target_geometry, query_geometry)
    \/ Return

SpecRank == Init /\ [][NextRank]_vars

-----------------------------------------------------------------------------
(* What the claims about delete speak of, stated on the table itself *)

\* the rows this Repository sees: all of them, or those its mask lets through
Visible(table) == {row \in table : filter = None \/ TextTrue(filter, NoParams, row)}

\* the rows on which the constraint's text is true
Matching(table, constraint) ==
    {row \in table : TextTrue(constraint.where, _create_values(constraint.values), row)}

\* the rows that name one of `parents` as their parent
ChildrenOf(table, parents) ==
    {row \in table : row.parentidentifier \in identifiers(parents)}

\* a step in which delete(constraint) returned without raising
DeleteReturned == ret'.op = "delete" /\ ret'.raised = None

\* a step in which delete(constraint) raised
DeleteRaised == ret'.op = "delete" /\ ret'.raised # None

(* C1, as claimed: delete returns the number of rows that matched the      *)
(* constraint plus the further rows the cascade removed; for one matched   *)
(* parent with n child records it returns 1 + n, and it returns 0 with the *)
(* store unchanged when no row matched.                                    *)
C1_AsClaimed ==
    [][DeleteReturned =>
        LET matched == Matching(Visible(db), ret'.args.constraint)
            kids == ChildrenOf(db, matched) \ matched
        IN  /\ ret'.value = Cardinality(db \ db')
            /\ Cardinality(matched) = 1 => ret'.value = 1 + Cardinality(kids)
            /\ matched = {} => (ret'.value = 0 /\ db' = db)]_vars

(* C1, amended: delete returns the number of rows that matched the         *)
(* constraint plus the further rows the cascade removed, which is the      *)
(* number of rows that left the table; for one matched parent with n child *)
(* records visible through the repository mask it returns 1 + n; it        *)
(* returns 0, with the store unchanged, when no row matched.               *)
C1_DeleteCount ==
    [][DeleteReturned =>
        LET matched == Matching(Visible(db), ret'.args.constraint)
            kids == ChildrenOf(Visible(db), matched) \ matched
        IN  /\ ret'.value = Cardinality(db \ db')
            /\ ret'.value = Cardinality(matched) + Cardinality(kids)
            /\ Cardinality(matched) = 1 => ret'.value = 1 + Cardinality(kids)
            /\ matched = {} => (ret'.value = 0 /\ db' = db)]_vars

\* under a mask, delete returned 3 for one parent with two visible children
C1_Witness ==
    /\ ret.op = "delete" /\ ret.raised = None
    /\ ret.args.constraint.where = "identifier = :pvalue0"
    /\ ret.value = 3
    /\ filter # None

(* C2, as claimed: after a successful delete the store holds no record     *)
(* that matched the constraint and no record whose parentidentifier is the *)
(* identifier of a record that matched; query_ids on those identifiers     *)
(* returns nothing.                                                        *)
C2_AsClaimed ==
    [][DeleteReturned =>
        LET matched == Matching(Visible(db), ret'.args.constraint)
            kids == ChildrenOf(db, matched)
        IN  /\ matched \cap db' = {}
            /\ ChildrenOf(db', matched) = {}
            /\ query_ids_rows(db', identifiers(matched \cup kids)) = {}]_vars

(* C2, amended: after a successful delete the store holds no record that   *)
(* matched the constraint and no record visible through the repository     *)
(* mask whose parentidentifier is the identifier of a record that matched; *)
(* query_ids on the identifiers of the matched records and of their        *)
(* children returns nothing.                                               *)
C2_DeleteCascades ==
    [][DeleteReturned =>
        LET matched == Matching(Visible(db), ret'.args.constraint)
            kids == ChildrenOf(db, matched)
        IN  /\ matched \cap db' = {}
            /\ ChildrenOf(Visible(db'), matched) = {}
            /\ query_ids_rows(db', identifiers(matched \cup kids)) = {}]_vars

\* under a mask, a delete removed a parent and a child and left other rows
C2_Witness ==
    /\ ret.op = "delete" /\ ret.raised = None
    /\ ret.value >= 2
    /\ filter # None
    /\ db # {}

(* C3: delete is atomic.  A delete that raises (whichever statement        *)
(* failed) leaves the table as it was before the call; a delete that       *)
(* returns has removed the matched rows and their children together; the   *)
(* table never holds the one removal without the other.                    *)
C3_DeleteAtomic ==
    [][(ret'.op = "delete") =>
        LET matched == Matching(Visible(db), ret'.args.constraint)
            kids == ChildrenOf(Visible(db), matched)
        IN  IF ret'.raised # None
            THEN db' = db /\ ret'.raised = CannotCommit
            ELSE db' = db \ (matched \cup kids)]_vars

\* a delete that would have removed rows raised
C3_Witness ==
    /\ ret.op = "delete" /\ ret.raised = CannotCommit
    /\ Matching(Visible(db), ret.args.constraint) # {}
    /\ ChildrenOf(Visible(db), Matching(Visible(db), ret.args.constraint))
           \ Matching(Visible(db), ret.args.constraint) # {}

(* C25: a delete that returns has removed the rows the mask shows that      *)
(* match the constraint and the rows the mask shows that name a matched row *)
(* as their parent, and no other row: a row whose parent went with the      *)
(* cascade stays, and so does every row the mask hides.                     *)
C25_DeleteFrame ==
    [][DeleteReturned =>
          LET seen == Visible(db)
              matched == Matching(seen, ret'.args.constraint)
          IN  db' = db \ (matched \cup ChildrenOf(seen, matched))]_vars

\* without a mask, a delete has removed a record and its child, and the
\* child's own child is still in the table
C25_Witness ==
    /\ ret.op = "delete"
    /\ ret.raised = None
    /\ filter = None
    /\ ret.value = 2
    /\ ret.args.constraint.where = "identifier = :pvalue0"
    /\ \E row \in db :
          /\ row.parentidentifier \notin {None, row.identifier}
          /\ row.parentidentifier \notin identifiers(db)
          /\ row.parentidentifier # ret.args.constraint.values[1]

(* C26: the ranking flag and its query geometry are changed by no method    *)
(* but query, and by query only when it reaches the ranking step with the   *)
(* flag set, which clears both; a query that fails while it counts leaves   *)
(* a pending activation as it was.                                          *)
OtherMethods ==
    {"query_ids", "query_collections", "query_domain", "query_source", "query_insert",
     "insert", "update", "delete"}

RankingUnchanged == UNCHANGED <<ranking_pass, ranking_query_geometry>>

\* the step is a query() that fails at the count of line 426
CountFails == ret.op = "idle" /\ ret'.op = "query" /\ ret'.raised # None /\ ret'.value = "count"

C26_RankingFrame ==
    [][/\ (ret.op = "idle" /\ ret'.op \in OtherMethods) => RankingUnchanged
       /\ CountFails => RankingUnchanged
       /\ (ret.op = "idle" /\ ret'.op = "query" /\ ~RankingUnchanged)
             => ranking_pass /\ ~ranking_pass' /\ ranking_query_geometry' = ""
       /\ (ret.op = "idle" /\ ret'.op = "query" /\ ret'.raised = None /\ ranking_pass)
             => ~ranking_pass' /\ ranking_query_geometry' = ""]_vars

\* a query has raised and the activation announced before it is still set
C26_Witness ==
    /\ ret.op = "query"
    /\ ret.raised # None
    /\ ret.value = "count"
    /\ ranking_pass
    /\ ranking_query_geometry = GeomA

(* C27: when two callers construct a Repository for one target that is not *)
(* cached yet, in any interleaving of their statements one engine is made   *)
(* for the target and both callers are returned the same engine.            *)
C27_AsClaimed ==
    \A a, b \in Callers :
        (a # b /\ threads[a].database = threads[b].database) =>
            /\ (threads[a].engine # NoEngine /\ threads[b].engine # NoEngine)
                  => threads[a].engine = threads[b].engine
            /\ (threads[a].at = "done" /\ threads[b].at = "done")
                  => threads[a].returned = threads[b].returned

-----------------------------------------------------------------------------
(* What the claims about query speak of *)

\* the row of an identifier (the identifier is the primary key)
RowOf(table, id) == CHOOSE row \in table : row.identifier = id

RECURSIVE gcd(_, _)
gcd(a, b) == IF b = 0 THEN a ELSE gcd(b, a % b)

\* the overlay rank of a target geometry against a query geometry, as a
\* number in lowest terms: (X/Q)*(X/T), and 0 where a geometry is missing,
\* unreadable or without area
OverlayRank(target_geometry, query_geometry) ==
    IF \/ target_geometry = None
       \/ query_geometry = None
       \/ loads_raises(target_geometry)
       \/ loads_raises(query_geometry)
    THEN [num |-> 0, den |-> 1]
    ELSE LET Q == area(loads(query_geometry))
             T == area(loads(target_geometry))
             X == intersection_area(loads(target_geometry), loads(query_geometry))
         IN  IF Q = 0 \/ T = 0 THEN [num |-> 0, den |-> 1]
             ELSE [num |-> (X * X) \div gcd(X * X, Q * T),
                   den |-> (Q * T) \div gcd(X * X, Q * T)]

RankLess(a, b) == a.num * b.den < b.num * a.den

\* no record of the page has a smaller rank than a record after it
RankDescending(page, table, geometry) ==
    \A i, j \in 1..Len(page) :
        i < j => ~RankLess(OverlayRank(RowOf(table, page[i]).wkt_geometry, geometry),
                           OverlayRank(RowOf(table, page[j]).wkt_geometry, geometry))

\* no record of the page has a rank text the database orders below that of
\* a record after it
RankTextDescending(page, table, geometry) ==
    \A i, j \in 1..Len(page) :
        i < j => ~TextLess(get_spatial_overlay_rank(RowOf(table, page[i]).wkt_geometry, geometry),
                           get_spatial_overlay_rank(RowOf(table, page[j]).wkt_geometry, geometry))

\* int() of the text of a natural number
RECURSIVE int(_)
int(text) ==
    IF text = <<>> THEN 0
    ELSE 10 * int(SubSeq(text, 1, Len(text) - 1))
         + (CHOOSE d \in 0..9 : Digits[d + 1] = text[Len(text)])

QueryReturned == ret'.op = "query" /\ ret'.raised = None

(* C4, as claimed: a query that runs while a ranking request is active      *)
(* returns its records by overlay rank descending and clears the flag and   *)
(* the geometry; a query that runs while none is active is not rank-ordered *)
(* and leaves the flag clear.                                               *)
C4_AsClaimed ==
    [][QueryReturned =>
          IF ranking_pass
          THEN /\ RankDescending(ret'.value.page, db, ranking_query_geometry)
               /\ ranking_pass' = FALSE
               /\ ranking_query_geometry' = ""
          ELSE /\ ~ret'.value.ranked
               /\ ranking_pass' = FALSE]_vars

(* C5: with two callers on the one process-wide flag, a query of a caller   *)
(* other than the one who announced the ranking request consumes it: that   *)
(* query is ordered by the database on the rank against the announcer's     *)
(* geometry and clears the flag; and the announcer's own query, which then  *)
(* finds the flag clear, runs without ranking.                              *)
C5_ActivationStolen ==
    [][QueryReturned =>
          /\ (ranking_pass /\ ranking_owner # ret'.args.caller) =>
                /\ ret'.value.ranked
                /\ ret'.value.geometry = ranking_query_geometry
                /\ RankTextDescending(ret'.value.page, db, ranking_query_geometry)
                /\ ~ranking_pass'
                /\ thief'[ranking_owner] = ret'.args.caller
          /\ (~ranking_pass /\ thief[ret'.args.caller] # None) =>
                /\ ~ret'.value.ranked
                /\ ret'.value.stolen_by = thief[ret'.args.caller]]_vars

\* caller A's query has returned unranked, its ranking request having been
\* consumed by a query of caller B, over two records of different rank
C5_Witness ==
    /\ ret.op = "query"
    /\ ret.raised = None
    /\ ret.args.caller = "A"
    /\ ~ret.value.ranked
    /\ ret.value.stolen_by = "B"
    /\ Len(ret.value.page) = 2

(* C6: the total query returns is the number of the records that satisfy    *)
(* both the repository mask and the caller's constraint, whatever           *)
(* maxrecords, startposition, sorting and ranking are; the page holds at    *)
(* most maxrecords records, each of them one of those records, none twice.  *)
C6_ExactTotal ==
    [][QueryReturned =>
          LET constraint == ret'.args.constraint
              satisfying == IF constraint.where = None THEN Visible(db)
                            ELSE Matching(Visible(db), constraint)
              page == ret'.value.page
          IN  /\ int(ret'.value.total) = Cardinality(satisfying)
              /\ Len(page) <= ret'.args.maxrecords
              /\ Len(page) = Min(ret'.args.maxrecords,
                                 Max(0, Cardinality(satisfying) - ret'.args.startposition))
              /\ \A i \in 1..Len(page) : page[i] \in identifiers(satisfying)
              /\ \A i, j \in 1..Len(page) : i # j => page[i] # page[j]]_vars

\* a ranked, sorted query under a mask and a constraint has returned a total
\* of 1 from a table of two records, with that record on the page
C6_Witness ==
    /\ ret.op = "query"
    /\ ret.raised = None
    /\ filter # None
    /\ ret.args.constraint.where # None
    /\ ret.args.sortby.propertyname # None
    /\ ret.value.ranked
    /\ Cardinality(db) = 2
    /\ ret.value.total = <<"1">>
    /\ Len(ret.value.page) = 1

-----------------------------------------------------------------------------
(* What the claims about construction speak of *)

EngineCall == ret'.op \in {"create_engine", "__init__"}

Constructed == ret'.op = "__init__" /\ ret'.raised = None

\* the descriptor the answers of the probes give, a probe that failed
\* leaving what was detected before it as it was
Detected(answers) ==
    [dialect |-> "postgresql",
     dbtype |-> IF answers.native \in GeometryColumns THEN "postgresql+postgis+native"
                ELSE IF answers.postgis1 = "ok" \/ answers.postgis2 = "ok"
                THEN "postgresql+postgis+wkt"
                ELSE "postgresql",
     postgis_geometry_column |-> IF answers.native \in GeometryColumns THEN answers.native
                                 ELSE None,
     fts |-> answers.fts = "found"]

ProbeFailed(answers) ==
    "fail" \in {answers.postgis1, answers.postgis2, answers.native, answers.fts}

(* C8: over any sequence of create_engine calls and constructions, an       *)
(* engine is created only by the first call for a url, which stores it; a   *)
(* later call for that url returns the stored engine and creates none; the  *)
(* engines of different urls differ; no entry of the cache is ever removed  *)
(* or replaced.                                                             *)
C8_OneEnginePerTarget ==
    [][/\ \A u \in DOMAIN _engines : u \in DOMAIN _engines' /\ _engines'[u] = _engines[u]
       /\ ~EngineCall => (_engines' = _engines /\ engines_created' = engines_created)
       /\ EngineCall =>
             LET url == ret'.args.url
             IN  /\ url \in DOMAIN _engines'
                 /\ ret'.op = "create_engine" => ret'.value = _engines'[url]
                 /\ Constructed => ret'.value.engine = _engines'[url]
                 /\ IF url \in DOMAIN _engines
                    THEN _engines' = _engines /\ engines_created' = engines_created
                    ELSE /\ engines_created' = engines_created + 1
                         /\ DOMAIN _engines' = DOMAIN _engines \cup {url}
                         /\ \A u \in DOMAIN _engines : _engines[u] # _engines'[url]]_vars

\* a construction has returned with the engine made first, after a second
\* engine was made for another url
C8_Witness ==
    /\ ret.op = "__init__"
    /\ ret.raised = None
    /\ engines_created = 2
    /\ ret.value.engine.serial = 1
    /\ ret.value.engine = _engines[ret.args.url]
    /\ ret.args.app_root # None
    /\ ret.args.database.rest = "records.db"

(* C9, as claimed: a second Repository constructed on a url issues no       *)
(* backend probe and has the descriptor the first construction detected.    *)
C9_AsClaimed ==
    [][(Constructed /\ ret'.args.url \in DOMAIN first) =>
          /\ ret'.value.probes = 0
          /\ descriptor(ret'.value) = first[ret'.args.url]]_vars

(* C9, amended: the engine of a url is made once and every construction on  *)
(* the url gets that engine, but the descriptor is detected by each         *)
(* construction anew: on a postgresql url every construction executes the   *)
(* four probes and has the descriptor their answers give; on another url a  *)
(* construction executes no probe and has the dialect as its descriptor.    *)
C9_ProbedPerConstruction ==
    [][Constructed =>
          LET repository == ret'.value
              url == ret'.args.url
          IN  /\ url \in DOMAIN _engines => repository.engine = _engines[url]
              /\ IF repository.engine.name = "postgresql"
                 THEN /\ repository.probes = 4
                      /\ descriptor(repository) = Detected(ret'.args.answers)
                 ELSE /\ repository.probes = 0
                      /\ descriptor(repository) =
                            [dialect |-> repository.engine.name,
                             dbtype |-> repository.engine.name,
                             postgis_geometry_column |-> None,
                             fts |-> FALSE]]_vars

\* a second construction on a url has executed the probes again and has a
\* descriptor other than the one first detected
C9_Witness ==
    /\ ret.op = "__init__"
    /\ ret.raised = None
    /\ ret.args.url \in DOMAIN first
    /\ ret.value.probes = 4
    /\ descriptor(ret.value) # first[ret.args.url]

(* C10, as claimed: a construction during which a probe failed does not     *)
(* fail with the probe's error, and has the descriptor that the probes      *)
(* which answered give (a failed probe changes nothing).                    *)
C10_AsClaimed ==
    [][(ret'.op = "__init__" /\ ProbeFailed(ret'.args.answers)) =>
          /\ ret'.raised # "OperationalError"
          /\ ret'.raised = None => descriptor(ret'.value) = Detected(ret'.args.answers)]_vars

-----------------------------------------------------------------------------
(* What the claims about update speak of *)

\* a property update has just returned or raised
PropertyUpdateCall == ret.op = "idle" /\ ret'.op = "update" /\ ~ret'.args.recprops.none

\* a full update has just returned or raised
FullUpdateCall == ret.op = "idle" /\ ret'.op = "update" /\ ret'.args.recprops.none

\* some pair of the list lacks its XPath or its column
Malformed(list) == \E k \in 1..Len(list) : list[k].xpath = NoXPath \/ list[k].dbcol = None

(* C11: a property update whose list holds a pair without an XPath or       *)
(* without a column raises, and the table after the call is the table       *)
(* before it: nothing the call wrote, for that pair or for the pairs        *)
(* before it, is persisted.                                                 *)
C11_MalformedPairRollsBack ==
    [][(PropertyUpdateCall /\ Malformed(ret'.args.recprops.list)) =>
          /\ ret'.raised # None
          /\ db' = db]_vars

\* an update raised on its second pair after its first pair had rewritten a
\* row of the transaction
C11_Witness ==
    /\ ret.op = "update"
    /\ ~ret.args.recprops.none
    /\ ret.cause \in {"RuntimeError: XPath not found for property",
                      "RuntimeError: property not found for XPath"}
    /\ Len(ret.args.recprops.list) = 2
    /\ ~Malformed(SubSeq(ret.args.recprops.list, 1, 1))
    /\ \E row \in update_rows(db, ret.args.constraint) :
          column_update(row, ret.args.recprops.list[1]) # row

\* the table of the transaction when pair k of the list is reached
BeforePair(table, list, k, constraint) ==
    update_pairs(table, 0, SubSeq(list, 1, k - 1), 1, constraint, NoFault).work

(* C12, as claimed: a property update that returns, returns the number of   *)
(* rows the column statement of its last pair affected, not a sum over the  *)
(* pairs.                                                                   *)
C12_AsClaimed ==
    [][(PropertyUpdateCall /\ ret'.raised = None /\ ret'.args.recprops.list # <<>>) =>
          LET list == ret'.args.recprops.list
              constraint == ret'.args.constraint
          IN  ret'.value =
                 Cardinality(update_rows(BeforePair(db, list, Len(list), constraint), constraint))]_vars

(* C13, as claimed: in every committed state, the anytext of each stored    *)
(* record is the extraction of that record's stored xml.                    *)
C13_AsClaimed == \A row \in db : row.anytext = get_anytext(row.xml)

-----------------------------------------------------------------------------
(* What the claims about update_xpath speak of *)

\* update_xpath has just returned
XPathCall == ret'.op = "update_xpath"

\* the document once more through the same update
Again(xml, recprop) == update_xpath("namespaces", xml, recprop)

\* the returned document has the elements of the given one, each with its
\* text kept or set to the value
Rewritten(before, after, value) ==
    /\ Len(after.nodes) = Len(before.nodes)
    /\ \A i \in 1..Len(before.nodes) :
          /\ after.nodes[i].tag = before.nodes[i].tag
          /\ after.nodes[i].text \in {before.nodes[i].text, value}

(* C14, as claimed: for every locator and value, update_xpath applied to    *)
(* the document it returned, with the same locator and value, returns that  *)
(* document again; no element is added or removed.                          *)
C14_AsClaimed ==
    [][XPathCall =>
          /\ Again(ret'.value, ret'.args.recprop) = ret'.value
          /\ Rewritten(ret'.args.xml, ret'.value, ret'.args.recprop.value)]_vars

(* C14, amended: update_xpath adds and removes no element, and sets the     *)
(* text of the selected elements only, to the value; applied again with the *)
(* same locator and value to the document it returned, it returns that      *)
(* document again whenever the locator selects in the returned document no  *)
(* element that it did not select in the given one, as every locator does   *)
(* that selects by element path alone.                                      *)
C14_XPathIdempotent ==
    [][XPathCall =>
          LET given == ret'.args.xml
              recprop == ret'.args.recprop
          IN  /\ Rewritten(given, ret'.value, recprop.value)
              /\ \A i \in 1..Len(given.nodes) :
                    ret'.value.nodes[i].text # given.nodes[i].text =>
                       i \in xpath(given.nodes, recprop.xpath)
              /\ xpath(ret'.value.nodes, recprop.xpath) \subseteq xpath(given.nodes, recprop.xpath)
                    => Again(ret'.value, recprop) = ret'.value
              /\ recprop.xpath.axis = "all" =>
                    xpath(ret'.value.nodes, recprop.xpath) = xpath(given.nodes, recprop.xpath)]_vars

\* update_xpath has rewritten one of two selected elements, the other one
\* having the value already, and returns the same document when applied again
C14_Witness ==
    /\ ret.op = "update_xpath"
    /\ ret.args.recprop.xpath.axis = "all"
    /\ Cardinality(xpath(ret.args.xml.nodes, ret.args.recprop.xpath)) = 2
    /\ \E i, j \in 1..Len(ret.args.xml.nodes) :
          /\ ret.args.xml.nodes[i].text # ret.value.nodes[i].text
          /\ ret.args.xml.nodes[j].text = ret.args.recprop.value
          /\ ret.args.xml.nodes[j].tag = ret.args.recprop.xpath.tag
    /\ Again(ret.value, ret.args.recprop) = ret.value

\* the table after the pairs from k on, each pair's column, xml and anytext
\* written together to the rows the constraint selects when the pair is reached
RECURSIVE PairsApplied(_, _, _, _)
PairsApplied(table, list, k, constraint) ==
    IF k > Len(list) THEN table
    ELSE LET selected == update_rows(table, constraint)
             written == {anytext_update(column_update(row, list[k])) : row \in selected}
         IN  PairsApplied((table \ selected) \cup written, list, k + 1, constraint)

(* C15, as claimed: a property update that raises leaves the table as it    *)
(* was; one that returns has committed every pair of the list, in order,    *)
(* each with its column, xml and anytext written together: the committed    *)
(* table never holds a pair's column and xml without its anytext, nor some  *)
(* pairs of the list without the others.                                    *)
C15_AsClaimed ==
    [][PropertyUpdateCall =>
          IF ret'.raised # None
          THEN db' = db
          ELSE db' = PairsApplied(db, ret'.args.recprops.list, 1, ret'.args.constraint)]_vars

\* insert, update or delete has just returned or raised
MutationCall == ret.op = "idle" /\ ret'.op \in {"insert", "update", "delete"}

C24_AsClaimed ==
    [][(PropertyUpdateCall /\ ret'.raised = None) =>
          \A row \in db' : \A old \in db :
             (old.identifier = row.identifier /\ old.xml # row.xml) =>
                row.anytext = get_anytext(row.xml)]_vars

-----------------------------------------------------------------------------
(* What the round-trip claim speaks of *)

\* insert has just returned
InsertReturned == ret.op = "idle" /\ ret'.op = "insert" /\ ret'.raised = None

\* the record as the table stores it: its xml as text, every other field as
\* it was given
Stored(record) == [record EXCEPT !.xml = [record.xml EXCEPT !.encoding = "str"]]

\* the mask lets the record through
Unmasked(record) == filter = None \/ TextTrue(filter, NoParams, record)

(* C17, as claimed: after an insert that returned, query_ids on the         *)
(* record's identifier returns exactly one record, the inserted one, equal  *)
(* on every field but for the xml being text.                               *)
C17_AsClaimed ==
    [][InsertReturned =>
          query_ids_rows(db', {ret'.args.record.identifier}) = {Stored(ret'.args.record)}]_vars

(* C17, amended: after an insert that returned, the table holds the record, *)
(* equal on every field but for the xml being text, and query_ids on its    *)
(* identifier returns exactly that record if the repository has no mask or  *)
(* the record satisfies it, and returns nothing otherwise.                  *)
C17_RoundTrip ==
    [][InsertReturned =>
          LET record == ret'.args.record
          IN  /\ {row \in db' : row.identifier = record.identifier} = {Stored(record)}
              /\ query_ids_rows(db', {record.identifier}) =
                    IF Unmasked(record) THEN {Stored(record)} ELSE {}]_vars

\* a record given with its xml in bytes has been inserted and query_ids on
\* its identifier, through a mask the record satisfies, returns it with the
\* xml as text
C17_Witness ==
    /\ ret.op = "insert"
    /\ ret.raised = None
    /\ ret.args.record.xml.encoding = "bytes"
    /\ filter # None
    /\ query_ids_rows(db, {ret.args.record.identifier}) = {Stored(ret.args.record)}
    /\ Cardinality(db) > 1

-----------------------------------------------------------------------------
(* What the claims about query_spatial speak of *)

\* query_spatial has just returned or raised
SpatialCall == ret.op = "idle" /\ ret'.op = "query_spatial"

\* a geometry argument that cannot be loaded
Unloadable(args) ==
    \/ args.bbox_data_wkt = None
    \/ split_last(args.bbox_data_wkt) \notin DOMAIN Shapes
    \/ args.bbox_input_wkt \notin DOMAIN Shapes

(* C18, as claimed: query_spatial raises for every predicate name outside   *)
(* the supported set, whatever the geometries are; it never returns 'false' *)
(* (or 'true') for one.                                                     *)
C18_AsClaimed ==
    [][(SpatialCall /\ ret'.args.predicate \notin Predicates) =>
          ret'.raised = "RuntimeError"]_vars

-----------------------------------------------------------------------------
(* What the claim about the overlay rank speaks of *)

\* get_spatial_overlay_rank has just returned
RankCall == ret.op = "idle" /\ ret'.op = "get_spatial_overlay_rank"

\* a well-formed geometry with an area
HasArea(geometry) == geometry \in DOMAIN Shapes /\ area(Shapes[geometry]) > 0

\* str() of a float of [0, 1]: 1.0, a fixed-point text below one, or an
\* exponent text with a negative exponent
UnitText(number) ==
    \/ number = <<"1", ".", "0">>
    \/ Len(number) >= 3 /\ number[1] = "0" /\ number[2] = "." /\ \A i \in 3..Len(number) : number[i] # "e"
    \/ /\ number[1] \in {"1", "2", "3", "4", "5", "6", "7", "8", "9"}
       /\ \E i \in 2..(Len(number) - 1) : number[i] = "e" /\ number[i + 1] = "-"

Unparsed(geometry) == geometry = None \/ geometry \notin (DOMAIN Shapes \cup DOMAIN InvalidShapes)

\* a geometry that parses and has no area
NoArea(geometry) == geometry \in DOMAIN Shapes /\ area(Shapes[geometry]) = 0

(* C21: get_spatial_overlay_rank raises nothing, and returns the text 0     *)
(* whenever the target or the query geometry is absent or does not parse,   *)
(* either of them has an area of zero, or their intersection fails.         *)
C21_RankZeroOnFailure ==
    [][RankCall =>
          LET target_geometry == ret'.args.target_geometry
              query_geometry == ret'.args.query_geometry
          IN  /\ ret'.raised = None
              /\ (\/ Unparsed(target_geometry) \/ Unparsed(query_geometry)
                  \/ NoArea(target_geometry) \/ NoArea(query_geometry)
                  \/ target_geometry \in DOMAIN InvalidShapes
                  \/ query_geometry \in DOMAIN InvalidShapes) => ret'.value = <<"0">>]_vars

\* the rank of a polygon against a self-crossing polygon that has an area
\* is 0
C21_Witness ==
    /\ ret.op = "get_spatial_overlay_rank"
    /\ ret.args.target_geometry = GeomA
    /\ ret.args.query_geometry = GeomBowtie
    /\ ret.raised = None
    /\ ret.value = <<"0">>

-----------------------------------------------------------------------------
(* What the claims about the read methods speak of *)

\* the records the mask shows that some record the mask shows names as its
\* parent, and the records of the collection type the mask shows
Collections(table) ==
    LET seen == Visible(table)
    IN  {row \in seen : \E child \in seen : child.parentidentifier = row.identifier}
        \cup {row \in seen : row.typename = "stac:Collection"}

(* C22, as claimed: query_collections returns records of the union of the   *)
(* parents and the collections the mask shows (those of them the filters    *)
(* accept), all of them when the limit allows, and never more than limit    *)
(* records.                                                                 *)
C22_AsClaimed ==
    [][(ret.op = "idle" /\ ret'.op = "query_collections") =>
          LET union == filter_filters(Collections(db), ret'.args.filters)
          IN  /\ ret'.value \subseteq union
              /\ Cardinality(ret'.value) <= ret'.args.limit
              /\ Cardinality(union) <= ret'.args.limit => ret'.value = union]_vars

\* the sum of the frequencies of a set of (value, frequency) pairs
RECURSIVE Frequencies(_)
Frequencies(pairs) ==
    IF pairs = {} THEN 0
    ELSE LET pair == CHOOSE r \in pairs : TRUE
         IN  pair[2] + Frequencies(pairs \ {pair})

(* C23: query_domain with count on a column returns one (value, frequency)  *)
(* pair for each distinct value the column has among the records the mask   *)
(* shows (NULL being one, with the frequency 0), and the frequencies sum to *)
(* the number of those records whose value in the column is not NULL.       *)
C23_FrequenciesSum ==
    [][(ret.op = "idle" /\ ret'.op = "query_domain"
           /\ ret'.args.domainquerytype = "list" /\ ret'.args.count) =>
          LET seen == Visible(db)
              domain == ret'.args.domain
          IN  /\ {r[1] : r \in ret'.value} = {row[domain] : row \in seen}
              /\ \A r, t \in ret'.value : r[1] = t[1] => r = t
              /\ Frequencies(ret'.value) =
                    Cardinality({row \in seen : row[domain] # null(domain)})]_vars

\* under a mask, over records with and without a parent, the frequencies of
\* parentidentifier have been returned: a pair for NULL and a pair for a
\* parent
C23_Witness ==
    /\ ret.op = "query_domain"
    /\ ret.args.domain = "parentidentifier"
    /\ ret.args.count
    /\ filter # None
    /\ \E r, t \in ret.value : r[1] = None /\ t[1] # None /\ t[2] >= 1

-----------------------------------------------------------------------------
(* The frame of the full update *)

(* C28: a full update changes no record but the one the mask shows that     *)
(* has the identifier of the supplied record; when there is no such record  *)
(* it changes and inserts nothing, and raises only when the backend fails.  *)
C28_FullUpdateFrame ==
    [][FullUpdateCall =>
          LET target == {row \in Visible(db) :
                            row.identifier = ret'.args.record.identifier}
          IN  /\ db \ target \subseteq db'
              /\ Cardinality(db') = Cardinality(db)
              /\ target = {} =>
                    /\ db' = db
                    /\ ret'.raised # None => ret'.cause = "OperationalError"]_vars

\* a full update has returned while the only record with the identifier of
\* its image is one the mask hides, and that record is not the image
C28_Witness ==
    /\ ret.op = "update"
    /\ ret.args.recprops.none
    /\ ret.raised = None
    /\ \E row \in db \ Visible(db) :
          /\ row.identifier = ret.args.record.identifier
          /\ row.title # ret.args.record.title
    /\ Visible(db) # {}

-----------------------------------------------------------------------------
(* The key of the table *)

(* C29: after every insert, update and delete no two records of the table   *)
(* have the same identifier; an insert of an identifier the table holds     *)
(* raises and leaves the table as it was.                                   *)
C29_IdentifiersUnique ==
    [][/\ \A r, t \in db' : r.identifier = t.identifier => r = t
       /\ (/\ ret.op = "idle"
           /\ ret'.op = "insert"
           /\ ret'.args.identifier \in identifiers(db))
             => ret'.raised # None /\ db' = db]_vars

\* an insert has raised for its identifier while the table holds another
\* record of that identifier
C29_Witness ==
    /\ ret.op = "insert"
    /\ ret.raised = "IntegrityError"
    /\ \E row \in db :
          /\ row.identifier = ret.args.identifier
          /\ row.title # ret.args.record.title
    /\ Cardinality(db) = 2

-----------------------------------------------------------------------------
(* ping *)

PingEnds == pinging.at # "idle" /\ pinging'.at = "idle"

(* C30: a ping that was entered ends; it has then probed at most max_tries  *)
(* times and slept wait_seconds for each probe that failed to connect; it   *)
(* returns when its last probe, and no probe before it, succeeded; and it   *)
(* raises RuntimeError when and only when max_tries probes in a row failed  *)
(* to connect.                                                              *)
C30_PingTerminates ==
    /\ (pinging.at # "idle") ~> (pinging.at = "idle")
    /\ [][PingEnds =>
             LET args == ret'.args
                 made == ret'.value
             IN  /\ ret'.op = "ping"
                 /\ made.attempts <= args.max_tries
                 /\ made.slept = made.current_try * args.wait_seconds
                 /\ ret'.raised = None => made.attempts = made.current_try + 1
                 /\ ret'.raised = "RuntimeError" <=>
                       (made.current_try = args.max_tries /\ made.attempts = args.max_tries)]_vars

\* a ping has raised RuntimeError after MaxTries probes and as many sleeps
C30_Witness ==
    /\ ret.op = "ping"
    /\ ret.raised = "RuntimeError"
    /\ ret.args.max_tries = MaxTries
    /\ ret.value.attempts = MaxTries
    /\ ret.value.slept = MaxTries * ret.args.wait_seconds
    /\ ret.value.slept > 0

====
